---------------------------- MODULE Spec2Model ----------------------------
(***************************************************************************)
(* Model of src/Bot.py: a simulated RSI + moving-average trading bot.      *)
(*                                                                         *)
(* Number representation (the source computes in binary floating point;    *)
(* the model computes the same expressions exactly, in fixed point):       *)
(*   - a price is an integer number of points, 1 point = 0.00001, which is *)
(*     the resolution round(price, 5) leaves (Bot.py:66);                  *)
(*   - money (balance, amount, profit_amount) is an integer number of      *)
(*     1/MoneyScale currency units;                                        *)
(*   - pnl is kept in points: 1 pip = PointsPerPip points, so the source's *)
(*     pnl = diff * 10000 is (points / PointsPerPip) pips;                  *)
(*   - a rolling mean is kept multiplied by MA_SHORT * MA_LONG and the RSI *)
(*     as a fraction num/den, so that every comparison of the source is an *)
(*     integer comparison.                                                 *)
(* The wall clock (datetime.utcnow()) is read as the tick counter.         *)
(***************************************************************************)
EXTENDS Integers, Sequences, FiniteSets

VARIABLES
    balance,        \* Bot.py:26   module global
    open_position,  \* Bot.py:27   None or the open position's dict
    trade_history,  \* Bot.py:28   list of closed trades
    price_series,   \* Bot.py:29   simulated closing prices
    tick,           \* Bot.py:30
    windows,        \* Bot.py:20-22  RSI_WINDOW, MA_SHORT, MA_LONG as configured
    shocks,         \* Bot.py:63  the moves random.uniform is sampled at
    pc,             \* the simulation thread's position in simulation_loop
    rpc,            \* the Flask thread's position in status()
    view,           \* the dict status() is building
    response,       \* the last response an endpoint returned
    began,          \* history: the tick at which the running status() began
    requests,       \* history: number of status() calls begun in ConcSpec
    opens,          \* history: number of open transitions taken
    closes,         \* history: number of close transitions taken
    committed       \* history: the ledgers at the completed transitions

vars == <<balance, open_position, trade_history, price_series, tick, windows,
          shocks, pc, rpc, view, response, began, requests, opens, closes,
          committed>>

engine == <<balance, open_position, trade_history, price_series, tick>>

-----------------------------------------------------------------------------
(* Bounds of the model *)

\* ticks explored by Spec
MaxTick == 8
\* ticks explored by ViewSpec (the endpoints called between ticks)
ViewMaxTick == 6
\* ticks explored by ConcSpec (statement-level interleaving)
ConcMaxTick == 5
\* status() calls made in ConcSpec
MaxRequests == 1
\* capacity of price_series: 500 at Bot.py:166, lowered so that eviction is
\* reached within MaxTick ticks
MaxSeries == 5

-----------------------------------------------------------------------------
(* Configuration, Bot.py:17-23.  The windows are read from the environment *)
(* (defaults 14, 5, 20) when the module is loaded and never change; the    *)
(* model runs small configurations.                                        *)

START_BALANCE == 1000
RSI_WINDOW == windows.RSI_WINDOW
MA_SHORT == windows.MA_SHORT
MA_LONG == windows.MA_LONG
TRADE_AMOUNT == 10

\* the configuration of Spec, ViewSpec, ConcSpec and MarginSpec
SmallWindows == [RSI_WINDOW |-> 3, MA_SHORT |-> 2, MA_LONG |-> 3]
\* a configuration whose short window is longer than the history-length
\* test of Bot.py:70 asks for: the frame exists before ma_short does
LateShortWindows == [RSI_WINDOW |-> 2, MA_SHORT |-> 4, MA_LONG |-> 2]

\* fixed-point scales
MoneyScale == 10000
PointsPerPip == 10

\* Bot.py:126-127, in pips
take_profit == 5
stop_loss == -10

\* Bot.py:88-89
RSI_BUY_BELOW == 30
RSI_SELL_ABOVE == 70

None == [none |-> TRUE]
\* a missing rolling mean (means are positive) and a missing RSI
NaN == -1
RsiNaN == [num |-> 0, den |-> 0]

Max(a, b) == IF a >= b THEN a ELSE b
Abs(a) == IF a >= 0 THEN a ELSE -a
Last(s) == s[Len(s)]

RECURSIVE Pow(_, _)
Pow(b, e) == IF e = 0 THEN 1 ELSE b * Pow(b, e - 1)

-----------------------------------------------------------------------------
(* generate_next_price, Bot.py:55-66 *)

\* base + uniform(-0.005, 0.005), rounded to 5 decimals: sampled values
FirstPrices == {110000, 110100}
\* last * shock for shock in uniform(-0.0008, 0.0008): sampled moves, in points
Shocks == {-80, -5, 40, 60}
\* another sample of the same interval, with small moves in both directions
SmallShocks == {-80, -5, 5, 40}

generate_next_price(prices) ==
    IF prices = <<>>
    THEN {p \in FirstPrices : Abs(p - 110000) <= 500}
    ELSE {Last(prices) + d : d \in {s \in shocks : Abs(s) * 10000 <= 8 * Last(prices)}}

-----------------------------------------------------------------------------
(* compute_indicators, Bot.py:68-75 *)

\* df['close'].rolling(window=w).mean() at row i (1-based), times w
RECURSIVE RollSum(_, _, _)
RollSum(close, i, w) ==
    IF w = 0 THEN 0 ELSE close[i] + RollSum(close, i - 1, w - 1)

\* rolling(window=MA_SHORT, min_periods=1): a mean of the rows there are
ma_short_MinPeriods1(df, i) ==
    IF i < MA_SHORT
    THEN (RollSum(df.close, i, i) * MA_SHORT * MA_LONG) \div i
    ELSE RollSum(df.close, i, MA_SHORT) * MA_LONG

\* rolling mean times MA_SHORT * MA_LONG; NaN on the first w - 1 rows
ma_short(df, i) ==
    IF i < MA_SHORT THEN NaN ELSE RollSum(df.close, i, MA_SHORT) * MA_LONG
ma_long(df, i) ==
    IF i < MA_LONG THEN NaN ELSE RollSum(df.close, i, MA_LONG) * MA_SHORT

\* close.diff(1) split into gains and losses; row 1 has no predecessor and
\* counts as 0 in both
up_direction(close, i) ==
    IF i > 1 /\ close[i] > close[i - 1] THEN close[i] - close[i - 1] ELSE 0
down_direction(close, i) ==
    IF i > 1 /\ close[i] < close[i - 1] THEN close[i - 1] - close[i] ELSE 0

\* x.ewm(alpha=1/RSI_WINDOW, adjust=False).mean() at row i, times
\* RSI_WINDOW^(i-1):  y_1 = x_1,  y_i = ((w-1) * y_(i-1) + x_i) / w
RECURSIVE emaup(_, _)
emaup(close, i) ==
    IF i = 1 THEN up_direction(close, 1)
    ELSE (RSI_WINDOW - 1) * emaup(close, i - 1)
         + Pow(RSI_WINDOW, i - 2) * up_direction(close, i)
RECURSIVE emadn(_, _)
emadn(close, i) ==
    IF i = 1 THEN down_direction(close, 1)
    ELSE (RSI_WINDOW - 1) * emadn(close, i - 1)
         + Pow(RSI_WINDOW, i - 2) * down_direction(close, i)

\* RSIIndicator(close, window).rsi() at row i as the fraction num/den:
\* 100 where emadn == 0, else 100 - 100 / (1 + emaup / emadn);
\* NaN on the first RSI_WINDOW - 1 rows (min_periods)
rsi(df, i) ==
    IF i < RSI_WINDOW THEN RsiNaN
    ELSE LET u == emaup(df.close, i)
             d == emadn(df.close, i)
         IN IF d = 0 THEN [num |-> 100, den |-> 1]
                     ELSE [num |-> 100 * u, den |-> u + d]

\* the history-length test without its extra row
compute_indicators_NoExtraRow(prices) ==
    IF Len(prices) < Max(RSI_WINDOW, MA_LONG)
    THEN None
    ELSE [close |-> prices]

compute_indicators(prices) ==
    IF Len(prices) < Max(RSI_WINDOW, MA_LONG) + 1
    THEN None
    ELSE [close |-> prices]


-----------------------------------------------------------------------------
(* try_take_signal, Bot.py:77-154 *)

\* pd.isna, of a rolling mean and of an RSI
isna(x) == x = NaN
rsi_isna(r) == r = RsiNaN

\* float comparisons: any comparison with NaN is False
LE(a, b) == a # NaN /\ b # NaN /\ a <= b
GE(a, b) == a # NaN /\ b # NaN /\ a >= b
LT(a, b) == a # NaN /\ b # NaN /\ a < b
GT(a, b) == a # NaN /\ b # NaN /\ a > b
RsiLT(r, k) == r # RsiNaN /\ r.num < k * r.den
RsiGT(r, k) == r # RsiNaN /\ r.num > k * r.den

\* row numbers of last = df.iloc[-1] and prev = df.iloc[-2] (0: prev is None)
LastRow(df) == Len(df.close)
PrevRow(df) == IF Len(df.close) >= 2 THEN Len(df.close) - 1 ELSE 0

\* Bot.py:82
NotActionable(df) ==
    \/ rsi_isna(rsi(df, LastRow(df)))
    \/ isna(ma_short(df, LastRow(df)))
    \/ isna(ma_long(df, LastRow(df)))

\* the RSI test alone, the crossover forgotten
buy_signal_NoCross(df) ==
    RsiLT(rsi(df, LastRow(df)), RSI_BUY_BELOW)

\* Bot.py:88
buy_signal(df) ==
    /\ RsiLT(rsi(df, LastRow(df)), RSI_BUY_BELOW)
    /\ PrevRow(df) # 0
    /\ LE(ma_short(df, PrevRow(df)), ma_long(df, PrevRow(df)))
    /\ GT(ma_short(df, LastRow(df)), ma_long(df, LastRow(df)))

\* the crossover test of the buy signal pasted into the sell signal
sell_signal_BuyCross(df) ==
    /\ RsiGT(rsi(df, LastRow(df)), RSI_SELL_ABOVE)
    /\ PrevRow(df) # 0
    /\ LE(ma_short(df, PrevRow(df)), ma_long(df, PrevRow(df)))
    /\ GT(ma_short(df, LastRow(df)), ma_long(df, LastRow(df)))

\* Bot.py:89
sell_signal(df) ==
    /\ RsiGT(rsi(df, LastRow(df)), RSI_SELL_ABOVE)
    /\ PrevRow(df) # 0
    /\ GE(ma_short(df, PrevRow(df)), ma_long(df, PrevRow(df)))
    /\ LT(ma_short(df, LastRow(df)), ma_long(df, LastRow(df)))

\* Bot.py:91
current_price(df) == df.close[LastRow(df)]

\* Bot.py:119-123, in points
pnl(entry, price) ==
    IF entry.direction = "call"
    THEN price - entry.entry_price
    ELSE entry.entry_price - price

\* Bot.py:130-135
ma_reverse(df, direction) ==
    /\ PrevRow(df) # 0
    /\ \/ /\ direction = "call"
          /\ GE(ma_short(df, PrevRow(df)), ma_long(df, PrevRow(df)))
          /\ LT(ma_short(df, LastRow(df)), ma_long(df, LastRow(df)))
       \/ /\ direction = "put"
          /\ LE(ma_short(df, PrevRow(df)), ma_long(df, PrevRow(df)))
          /\ GT(ma_short(df, LastRow(df)), ma_long(df, LastRow(df)))

\* the thresholds alone, the reverse crossover forgotten
close_condition_NoReverse(df, entry) ==
    \/ pnl(entry, current_price(df)) >= take_profit * PointsPerPip
    \/ pnl(entry, current_price(df)) <= stop_loss * PointsPerPip

\* Bot.py:137
close_condition(df, entry) ==
    \/ pnl(entry, current_price(df)) >= take_profit * PointsPerPip
    \/ pnl(entry, current_price(df)) <= stop_loss * PointsPerPip
    \/ ma_reverse(df, entry.direction)

\* the stake taken whole: (profit / 10.0) * entry["amount"]
profit_amount_StakeUnscaled(entry, price) ==
    (pnl(entry, price) * entry.amount) \div (PointsPerPip * 10)

\* Bot.py:139-140: (profit / 10.0) * (entry["amount"] / 100.0), in money units
profit_amount(entry, price) ==
    (pnl(entry, price) * entry.amount) \div (PointsPerPip * 10 * 100)

\* Bot.py:95-100 and 105-110
new_position(direction, price, now) ==
    [entry_time |-> now, entry_price |-> price,
     direction |-> direction, amount |-> TRADE_AMOUNT * MoneyScale]

\* round(x, 6) of an amount of money: millionths of a currency unit
round6(b) == b * (1000000 \div MoneyScale)

\* Bot.py:142-151; round(profit_amount, 6) keeps millionths of a currency
\* unit and round(pnl, 3) thousandths of a pip
closed_trade(entry, price, now) ==
    [entry_time |-> entry.entry_time, close_time |-> now,
     entry_price |-> entry.entry_price, close_price |-> price,
     direction |-> entry.direction, amount |-> entry.amount,
     profit_amount |-> round6(profit_amount(entry, price)),
     pnl_pips |-> (pnl(entry, price) * 1000) \div PointsPerPip]

\* which branch of Bot.py:82-154 a call takes
Branch(df, position) ==
    IF NotActionable(df) THEN "return"
    ELSE IF position = None
         THEN IF buy_signal(df) THEN "buy"
              ELSE IF sell_signal(df) THEN "sell" ELSE "flat"
         ELSE IF close_condition(df, position) THEN "close" ELSE "hold"

\* the ledger the statements below write
Ledger == [balance |-> balance, open_position |-> open_position,
           trade_history |-> trade_history]

\* a margin rule the source does not have: no position without the funds
SetPosition_MarginChecked(L, direction, price, now) ==
    IF L.balance >= TRADE_AMOUNT * MoneyScale
    THEN [L EXCEPT !.open_position = new_position(direction, price, now)]
    ELSE L

\* Bot.py:95 and 105: open_position = {...}
SetPosition(L, direction, price, now) ==
    [L EXCEPT !.open_position = new_position(direction, price, now)]
\* the debit forgotten
Debit_Skipped(L) == L

\* Bot.py:102 and 111: balance -= TRADE_AMOUNT
Debit(L) ==
    [L EXCEPT !.balance = @ - TRADE_AMOUNT * MoneyScale]
\* the stake not returned: balance += profit_amount
Credit_ProfitOnly(L, price) ==
    [L EXCEPT !.balance = @ + profit_amount(L.open_position, price)]

\* Bot.py:141: balance += entry["amount"] + profit_amount
Credit(L, price) ==
    [L EXCEPT !.balance = @ + L.open_position.amount
                            + profit_amount(L.open_position, price)]
\* trade_history.insert(0, closed)
AppendTrade_Front(L, price, now) ==
    [L EXCEPT !.trade_history = <<closed_trade(L.open_position, price, now)>> \o @]

\* Bot.py:142-152: trade_history.append(closed)
AppendTrade(L, price, now) ==
    [L EXCEPT !.trade_history = Append(@, closed_trade(L.open_position, price, now))]
\* the position left in place after a close
ClearPosition_Forgotten(L) == L

\* Bot.py:154: open_position = None
ClearPosition(L) ==
    [L EXCEPT !.open_position = None]

\* the open test run again after a close: a position closed and another
\* opened by one call
try_take_signal_ReopenAfterClose(df, L, now) ==
    LET b == Branch(df, L.open_position)
        p == current_price(df)
        C == ClearPosition(AppendTrade(Credit(L, p), p, now))
    IN CASE b = "buy"   -> Debit(SetPosition(L, "call", p, now))
         [] b = "sell"  -> Debit(SetPosition(L, "put", p, now))
         [] b = "close" ->
              IF buy_signal(df) THEN Debit(SetPosition(C, "call", p, now))
              ELSE IF sell_signal(df) THEN Debit(SetPosition(C, "put", p, now))
              ELSE C
         [] OTHER       -> L

\* one whole call, statements in source order
try_take_signal(df, L, now) ==
    LET b == Branch(df, L.open_position)
        p == current_price(df)
    IN CASE b = "buy"   -> Debit(SetPosition(L, "call", p, now))
         [] b = "sell"  -> Debit(SetPosition(L, "put", p, now))
         [] b = "close" -> ClearPosition(AppendTrade(Credit(L, p), p, now))
         [] OTHER       -> L

-----------------------------------------------------------------------------
(* status and trades, Bot.py:40-52 *)

\* a response: what was returned (kind, body), the tick at which the handler
\* began and the tick at which it returned
NoResponse == [kind |-> "none", began |-> 0, at |-> 0, body |-> <<>>]
\* the dict of Bot.py:42 before any of its values is evaluated
EmptyView == [balance |-> 0, open_position |-> None, trades_count |-> 0,
              latest_price |-> 0, tick |-> 0]

\* the other end of the list: price_series[0]
latest_price_Oldest(prices) == IF prices = <<>> THEN 0 ELSE prices[1]

\* price_series[-1] if price_series else None (0: None)
latest_price(prices) == IF prices = <<>> THEN 0 ELSE Last(prices)

\* the whole dict of Bot.py:42-48, evaluated without interruption
status_view ==
    [balance |-> round6(balance), open_position |-> open_position,
     trades_count |-> Len(trade_history),
     latest_price |-> latest_price(price_series), tick |-> tick]

\* what a status response shows of the ledger L
Shown(L) ==
    [balance |-> round6(L.balance), open_position |-> L.open_position,
     trades_count |-> Len(L.trade_history)]

-----------------------------------------------------------------------------
(* simulation_loop, Bot.py:159-177 *)

\* the newest point dropped on overflow: price_series.pop()
append_price_EvictNewest(prices, price) ==
    LET s == Append(prices, price)
    IN IF Len(s) > MaxSeries THEN SubSeq(s, 1, Len(s) - 1) ELSE s

\* Bot.py:164-167
append_price(prices, price) ==
    LET s == Append(prices, price)
    IN IF Len(s) > MaxSeries THEN Tail(s) ELSE s

Init ==
    /\ balance = START_BALANCE * MoneyScale
    /\ open_position = None
    /\ trade_history = <<>>
    /\ price_series = <<>>
    /\ tick = 0
    /\ windows = SmallWindows
    /\ shocks = Shocks
    /\ pc = "loop"
    /\ rpc = "idle"
    /\ view = EmptyView
    /\ response = NoResponse
    /\ began = 0
    /\ requests = 0
    /\ opens = 0
    /\ closes = 0
    /\ committed = {Shown([balance |-> START_BALANCE * MoneyScale,
                           open_position |-> None, trade_history |-> <<>>])}

\* One iteration of the while loop, Bot.py:162-171, run without interruption,
\* while fewer than limit iterations have run.
Iteration(limit) ==
    /\ tick < limit
    /\ pc = "loop"
    /\ \E price \in generate_next_price(price_series) :
         LET series == append_price(price_series, price)
             df == compute_indicators(series)
             b  == IF df = None THEN "absent" ELSE Branch(df, open_position)
             L  == IF df = None THEN Ledger
                   ELSE try_take_signal(df, Ledger, tick + 1)
         IN /\ tick' = tick + 1
            /\ price_series' = series
            /\ balance' = L.balance
            /\ open_position' = L.open_position
            /\ trade_history' = L.trade_history
            /\ opens' = IF b \in {"buy", "sell"} THEN opens + 1 ELSE opens
            /\ closes' = IF b = "close" THEN closes + 1 ELSE closes
            /\ committed' = committed \cup {Shown(L)}
    /\ UNCHANGED <<windows, shocks, pc, rpc, view, response, began, requests>>

Tick == Iteration(MaxTick)

Next == Tick

\* The engine alone: the iterations of simulation_loop, one after another.
Spec == Init /\ [][Next]_vars

-----------------------------------------------------------------------------
(* The engine started with little money: START_BALANCE is read from the    *)
(* environment (Bot.py:17) and may be below TRADE_AMOUNT.                   *)

\* START_BALANCE values below the stake, in currency units
LowStartBalances == {0, 5}

MarginInit ==
    /\ balance \in {b * MoneyScale : b \in LowStartBalances}
    /\ open_position = None
    /\ trade_history = <<>>
    /\ price_series = <<>>
    /\ tick = 0
    /\ windows = SmallWindows
    /\ shocks = Shocks
    /\ pc = "loop"
    /\ rpc = "idle"
    /\ view = EmptyView
    /\ response = NoResponse
    /\ began = 0
    /\ requests = 0
    /\ opens = 0
    /\ closes = 0
    /\ committed = {Shown(Ledger)}

MarginTick == Iteration(MaxTick)

MarginNext == MarginTick

MarginSpec == MarginInit /\ [][MarginNext]_vars

-----------------------------------------------------------------------------
(* The engine configured with MA_SHORT above max(RSI_WINDOW, MA_LONG) + 1: *)
(* compute_indicators returns frames whose last ma_short is NaN, the case   *)
(* the guard of Bot.py:82 is written for.                                   *)

GuardInit ==
    /\ balance = START_BALANCE * MoneyScale
    /\ open_position = None
    /\ trade_history = <<>>
    /\ price_series = <<>>
    /\ tick = 0
    /\ windows = LateShortWindows
    /\ shocks = Shocks
    /\ pc = "loop"
    /\ rpc = "idle"
    /\ view = EmptyView
    /\ response = NoResponse
    /\ began = 0
    /\ requests = 0
    /\ opens = 0
    /\ closes = 0
    /\ committed = {Shown(Ledger)}

GuardTick == Iteration(MaxTick)

GuardNext == GuardTick

GuardSpec == GuardInit /\ [][GuardNext]_vars

-----------------------------------------------------------------------------
(* The engine on prices that move by small steps in both directions: a     *)
(* position is then closed on a tick on which the opposite open signal      *)
(* holds.                                                                   *)

ReverseInit ==
    /\ balance = START_BALANCE * MoneyScale
    /\ open_position = None
    /\ trade_history = <<>>
    /\ price_series = <<>>
    /\ tick = 0
    /\ windows = SmallWindows
    /\ shocks = SmallShocks
    /\ pc = "loop"
    /\ rpc = "idle"
    /\ view = EmptyView
    /\ response = NoResponse
    /\ began = 0
    /\ requests = 0
    /\ opens = 0
    /\ closes = 0
    /\ committed = {Shown(Ledger)}

ReverseTick == Iteration(MaxTick)

ReverseNext == ReverseTick

ReverseSpec == ReverseInit /\ [][ReverseNext]_vars

-----------------------------------------------------------------------------
(* The endpoints called between iterations *)

ViewTick == Iteration(ViewMaxTick)

\* a status() that hands the history over and empties it
Status_Draining ==
    /\ rpc = "idle"
    /\ response' = [kind |-> "status", began |-> tick, at |-> tick,
                     body |-> status_view]
    /\ trade_history' = <<>>
    /\ UNCHANGED <<windows, shocks, balance, open_position, price_series, tick,
                   pc, rpc, view, began, requests, opens, closes, committed>>

\* GET /status, Bot.py:40-48
Status ==
    /\ rpc = "idle"
    /\ response' = [kind |-> "status", began |-> tick, at |-> tick,
                     body |-> status_view]
    /\ UNCHANGED <<windows, shocks, engine, pc, rpc, view, began, requests, opens, closes,
                   committed>>

\* GET /trades, Bot.py:50-52
Trades ==
    /\ rpc = "idle"
    /\ response' = [kind |-> "trades", began |-> tick, at |-> tick,
                     body |-> trade_history]
    /\ UNCHANGED <<windows, shocks, engine, pc, rpc, view, began, requests, opens, closes,
                   committed>>

ViewNext == ViewTick \/ Status \/ Trades

ViewSpec == Init /\ [][ViewNext]_vars

-----------------------------------------------------------------------------
(* The two threads, statement by statement: the simulation thread          *)
(* (Bot.py:181) and a Flask request thread running status(); no lock is    *)
(* taken by either.                                                        *)

\* Bot.py:162
LoopTick ==
    /\ pc = "loop"
    /\ tick < ConcMaxTick
    /\ tick' = tick + 1
    /\ pc' = "price"
    /\ UNCHANGED <<windows, shocks, balance, open_position, trade_history, price_series,
                   rpc, view, response, began, requests, opens, closes,
                   committed>>

\* Bot.py:163-167
LoopPrice ==
    /\ pc = "price"
    /\ \E price \in generate_next_price(price_series) :
         price_series' = append_price(price_series, price)
    /\ pc' = "signal"
    /\ UNCHANGED <<windows, shocks, balance, open_position, trade_history, tick,
                   rpc, view, response, began, requests, opens, closes,
                   committed>>

\* Bot.py:169-171 up to the first write of try_take_signal: line 95 or 105
\* when opening, line 141 when closing
LoopSignal ==
    /\ pc = "signal"
    /\ LET df == compute_indicators(price_series)
           b  == IF df = None THEN "absent" ELSE Branch(df, open_position)
           p  == Last(price_series)
           L  == CASE b = "buy"   -> SetPosition(Ledger, "call", p, tick)
                   [] b = "sell"  -> SetPosition(Ledger, "put", p, tick)
                   [] b = "close" -> Credit(Ledger, p)
                   [] OTHER       -> Ledger
       IN /\ balance' = L.balance
          /\ open_position' = L.open_position
          /\ pc' = CASE b \in {"buy", "sell"} -> "debit"
                     [] b = "close"           -> "append"
                     [] OTHER                 -> "loop"
    /\ UNCHANGED <<windows, shocks, trade_history, price_series, tick,
                   rpc, view, response, began, requests, opens, closes,
                   committed>>

\* Bot.py:102 or 111
LoopDebit ==
    /\ pc = "debit"
    /\ balance' = Debit(Ledger).balance
    /\ pc' = "loop"
    /\ opens' = opens + 1
    /\ committed' = committed \cup {Shown(Debit(Ledger))}
    /\ UNCHANGED <<windows, shocks, open_position, trade_history, price_series, tick,
                   rpc, view, response, began, requests, closes>>

\* Bot.py:142-152
LoopAppend ==
    /\ pc = "append"
    /\ trade_history' = AppendTrade(Ledger, Last(price_series), tick).trade_history
    /\ pc' = "clear"
    /\ UNCHANGED <<windows, shocks, balance, open_position, price_series, tick,
                   rpc, view, response, began, requests, opens, closes,
                   committed>>

\* Bot.py:154
LoopClear ==
    /\ pc = "clear"
    /\ open_position' = None
    /\ pc' = "loop"
    /\ closes' = closes + 1
    /\ committed' = committed \cup {Shown(ClearPosition(Ledger))}
    /\ UNCHANGED <<windows, shocks, balance, trade_history, price_series, tick,
                   rpc, view, response, began, requests, opens>>

\* Bot.py:43
ReadBalance ==
    /\ rpc = "idle"
    /\ requests < MaxRequests
    /\ view' = [EmptyView EXCEPT !.balance = round6(balance)]
    /\ rpc' = "open_position"
    /\ began' = tick
    /\ requests' = requests + 1
    /\ UNCHANGED <<windows, shocks, engine, pc, response, opens, closes, committed>>

\* Bot.py:44
ReadPosition ==
    /\ rpc = "open_position"
    /\ view' = [view EXCEPT !.open_position = open_position]
    /\ rpc' = "trades_count"
    /\ UNCHANGED <<windows, shocks, engine, pc, response, began, requests, opens, closes,
                   committed>>

\* Bot.py:45
ReadCount ==
    /\ rpc = "trades_count"
    /\ view' = [view EXCEPT !.trades_count = Len(trade_history)]
    /\ rpc' = "latest_price"
    /\ UNCHANGED <<windows, shocks, engine, pc, response, began, requests, opens, closes,
                   committed>>

\* Bot.py:46-48 and the return
ReadRest ==
    /\ rpc = "latest_price"
    /\ response' = [kind |-> "status", began |-> began, at |-> tick,
                    body |-> [view EXCEPT !.latest_price = latest_price(price_series),
                                          !.tick = tick]]
    /\ view' = EmptyView
    /\ rpc' = "idle"
    /\ began' = 0
    /\ UNCHANGED <<windows, shocks, engine, pc, requests, opens, closes, committed>>

ConcNext ==
    \/ LoopTick \/ LoopPrice \/ LoopSignal \/ LoopDebit \/ LoopAppend \/ LoopClear
    \/ ReadBalance \/ ReadPosition \/ ReadCount \/ ReadRest

ConcSpec == Init /\ [][ConcNext]_vars

-----------------------------------------------------------------------------
(* Properties *)

\* the first tick at which compute_indicators returns a frame
FirstActionable == Max(RSI_WINDOW, MA_LONG) + 1
Stake == TRADE_AMOUNT * MoneyScale
IsPosition(x) ==
    /\ DOMAIN x = {"entry_time", "entry_price", "direction", "amount"}
    /\ x.direction \in {"call", "put"}

RECURSIVE SumCredits(_)
\* sum of stake + profitAmount over the closed trades, in millionths
SumCredits(h) ==
    IF h = <<>> THEN 0
    ELSE round6(h[1].amount) + h[1].profit_amount + SumCredits(Tail(h))
RECURSIVE SumProfits(_)
SumProfits(h) ==
    IF h = <<>> THEN 0 ELSE h[1].profit_amount + SumProfits(Tail(h))

(* C1: at most one position is open (open_position is None or one position  *)
(* record); the number of closed trades equals the number of close          *)
(* transitions; opens = closes + (1 if a position is open else 0); and a    *)
(* tick that closes appends exactly one trade and ends with no position.    *)
C1_SinglePosition ==
    /\ [](/\ open_position = None \/ IsPosition(open_position)
          /\ Len(trade_history) = closes
          /\ opens = closes + (IF open_position = None THEN 0 ELSE 1))
    /\ [][closes' # closes =>
            /\ closes' = closes + 1
            /\ Len(trade_history') = Len(trade_history) + 1
            /\ open_position # None
            /\ open_position' = None]_vars
C1_Witness == closes = 1 /\ opens = 2 /\ open_position # None

(* C2: at the end of every tick balance = startBalance - (sum of stake over *)
(* the opens) + (sum of stake + profitAmount over the closes); with no      *)
(* position open, balance = startBalance + sum of profitAmount.             *)
C2_BalanceAccounting ==
    /\ round6(balance) = round6(START_BALANCE * MoneyScale)
                           - opens * round6(Stake) + SumCredits(trade_history)
    /\ open_position = None =>
         round6(balance) = round6(START_BALANCE * MoneyScale)
                             + SumProfits(trade_history)
C2_Witness ==
    /\ closes = 2
    /\ open_position = None
    /\ SumProfits(trade_history) # 0
    /\ trade_history[1].profit_amount > 0
    /\ trade_history[2].profit_amount < 0

(* C4 as stated: the first actionable tick never opens or closes, the      *)
(* ledger is FLAT with balance = startBalance at its end.                   *)
C4_FirstActionableStaysFlat ==
    tick = FirstActionable =>
        /\ open_position = None
        /\ trade_history = <<>>
        /\ balance = START_BALANCE * MoneyScale

(* C4 amended: at the end of the first actionable tick no trade has been    *)
(* closed, and either the ledger is FLAT with balance = startBalance, or    *)
(* one position was opened on that tick at that tick's price, on a          *)
(* crossover between the last two rows of the price history, and balance =  *)
(* startBalance - stake.                                                    *)
C4_FirstActionableOpensOnly ==
    tick = FirstActionable =>
        /\ trade_history = <<>>
        /\ closes = 0
        /\ \/ /\ open_position = None
              /\ balance = START_BALANCE * MoneyScale
           \/ /\ IsPosition(open_position)
              /\ open_position.entry_time = tick
              /\ open_position.entry_price = Last(price_series)
              /\ balance = START_BALANCE * MoneyScale - Stake
              /\ LET n == Len(price_series)
                     df == [close |-> price_series]
                 IN /\ n = FirstActionable
                    /\ ma_short(df, n - 1) # NaN /\ ma_long(df, n - 1) # NaN
                    /\ IF open_position.direction = "call"
                       THEN /\ ma_short(df, n - 1) <= ma_long(df, n - 1)
                            /\ ma_short(df, n) > ma_long(df, n)
                       ELSE /\ ma_short(df, n - 1) >= ma_long(df, n - 1)
                            /\ ma_short(df, n) < ma_long(df, n)
C4_Witness == tick = FirstActionable /\ open_position # None

(* C5: for every tick count t < max(rsiWindow, maLongWindow) + 1 the        *)
(* indicator engine returns absent and the ledger is untouched: no          *)
(* position, no trade, balance = startBalance.                              *)
C5_WarmUpUntouched ==
    tick < FirstActionable =>
        /\ Len(price_series) = tick
        /\ compute_indicators(price_series) = None
        /\ open_position = None
        /\ trade_history = <<>>
        /\ balance = START_BALANCE * MoneyScale
C5_Witness ==
    /\ tick = FirstActionable - 1
    /\ Len(price_series) = Max(RSI_WINDOW, MA_LONG)
    /\ price_series[1] # price_series[2]

(* C3: a status reader running concurrently with the tick thread only      *)
(* observes complete ledgers: the (balance, open_position, trades) that a   *)
(* status() call running within one tick returns is the ledger before or    *)
(* after that tick's transition, never a partially updated one.             *)
C3_NoTornRead ==
    (response.kind = "status" /\ response.began = response.at) =>
        [balance |-> response.body.balance,
         open_position |-> response.body.open_position,
         trades_count |-> response.body.trades_count] \in committed

\* the rolling means over the history old of the previous tick and over the
\* history new of this tick, each at its latest price
MeansDefined(prices) == Len(prices) >= Max(MA_SHORT, MA_LONG)
LatestShort(prices) == ma_short([close |-> prices], Len(prices))
LatestLong(prices) == ma_long([close |-> prices], Len(prices))
\* maShort was <= maLong on the previous tick and is > maLong now
CrossUp(old, new) ==
    /\ MeansDefined(old) /\ MeansDefined(new)
    /\ LatestShort(old) <= LatestLong(old)
    /\ LatestShort(new) > LatestLong(new)
\* maShort was >= maLong on the previous tick and is < maLong now
CrossDown(old, new) ==
    /\ MeansDefined(old) /\ MeansDefined(new)
    /\ LatestShort(old) >= LatestLong(old)
    /\ LatestShort(new) < LatestLong(new)
\* the snapshot of the last row exists and has its three values
Actionable(prices) ==
    /\ Len(prices) >= FirstActionable
    /\ rsi([close |-> prices], Len(prices)) # RsiNaN
    /\ ma_short([close |-> prices], Len(prices)) # NaN
    /\ ma_long([close |-> prices], Len(prices)) # NaN
LedgerUnchanged == UNCHANGED <<balance, open_position, trade_history>>

(* C6: from FLAT with an actionable snapshot a tick opens long iff rsi < 30 *)
(* and maShort crossed above maLong, opens short iff rsi > 70 and maShort   *)
(* crossed below maLong; the new position has entry price = the tick's      *)
(* price and stake = the trade amount, and balance decreases by the stake;  *)
(* when neither holds the ledger is unchanged.                              *)
C6_OpenRule ==
    [][(open_position = None /\ tick' = tick + 1 /\ Actionable(price_series')) =>
        LET df == [close |-> price_series']
            r == rsi(df, Len(price_series'))
            long == r.num < 30 * r.den /\ CrossUp(price_series, price_series')
            short == r.num > 70 * r.den /\ CrossDown(price_series, price_series')
        IN /\ long <=> (open_position' # None /\ open_position'.direction = "call")
           /\ short <=> (open_position' # None /\ open_position'.direction = "put")
           /\ open_position' # None =>
                /\ open_position'.entry_price = Last(price_series')
                /\ open_position'.amount = Stake
                /\ balance' = balance - Stake
                /\ trade_history' = trade_history
           /\ (~long /\ ~short) => LedgerUnchanged]_vars
C6_Witness ==
    /\ opens = 2
    /\ trade_history[1].direction = "call"
    /\ open_position # None
    /\ open_position.direction = "put"
    /\ open_position.entry_time = tick

(* C7: with a position open and an actionable snapshot a tick closes iff    *)
(* pnlPips >= 5 or pnlPips <= -10 or a reverse crossover occurred, with     *)
(* pnlPips = (price - entry) * 10000 for long and (entry - price) * 10000   *)
(* for short; otherwise position, balance and history are unchanged.        *)
C7_CloseRule ==
    [][(open_position # None /\ tick' = tick + 1 /\ Actionable(price_series')) =>
        LET e == open_position
            p == Last(price_series')
            points == IF e.direction = "call" THEN p - e.entry_price
                                              ELSE e.entry_price - p
            reverse == IF e.direction = "call"
                       THEN CrossDown(price_series, price_series')
                       ELSE CrossUp(price_series, price_series')
            close == \/ points >= 5 * PointsPerPip
                     \/ points <= (-10) * PointsPerPip
                     \/ reverse
        IN /\ close <=> open_position' = None
           /\ close => Len(trade_history') = Len(trade_history) + 1
           /\ ~close => LedgerUnchanged]_vars
\* a position held over a tick, then closed by the reverse crossover alone
C7_Witness ==
    /\ closes >= 1
    /\ Last(trade_history).close_time = tick
    /\ Last(trade_history).close_time > Last(trade_history).entry_time + 1
    /\ Last(trade_history).pnl_pips < 5000
    /\ Last(trade_history).pnl_pips > -10000

(* C8: a long position with entry E and a tick at price P with              *)
(* (P - E) * 10000 >= 5 closes with profitAmount = (pnlPips / 10) *         *)
(* (stake / 100) and credits stake + profitAmount; for E = 1.10000,         *)
(* P = 1.10060, stake = 10: pnlPips = 6, profitAmount = 0.06 and balance    *)
(* rises by 10.06.                                                          *)
C8_TakeProfitSettlement ==
    [][(/\ open_position # None
        /\ open_position.direction = "call"
        /\ tick' = tick + 1
        /\ Last(price_series') - open_position.entry_price >= 5 * PointsPerPip) =>
        LET e == open_position
            points == Last(price_series') - e.entry_price
            \* (pnlPips / 10) * (stake / 100), in millionths of a currency unit
            profit == (points * (e.amount \div MoneyScale) * 1000000)
                         \div (PointsPerPip * 10 * 100)
        IN /\ open_position' = None
           /\ Len(trade_history') = Len(trade_history) + 1
           /\ Last(trade_history').profit_amount = profit
           /\ round6(balance') = round6(balance) + round6(e.amount) + profit
           /\ (e.entry_price = 110000 /\ Last(price_series') = 110060
                 /\ e.amount = 10 * MoneyScale) =>
                /\ Last(trade_history').pnl_pips = 6000
                /\ Last(trade_history').profit_amount = 60000
                /\ round6(balance') - round6(balance) = 10060000]_vars
C8_Witness ==
    /\ closes >= 1
    /\ Last(trade_history).direction = "call"
    /\ Last(trade_history).entry_price = 110000
    /\ Last(trade_history).close_price = 110060
    /\ Last(trade_history).close_time = tick
    /\ Last(trade_history).amount = 10 * MoneyScale

(* C9: reads of /status and /trades never change engine state: balance,    *)
(* open_position, trade_history, price_series and tick change only in a     *)
(* tick of the simulation loop, and a read repeated between two ticks       *)
(* returns the value the previous read returned.                            *)
C9_ReadsDoNotMutate ==
    [][/\ engine' # engine => (tick' = tick + 1 /\ response' = response)
       /\ (response'.kind = response.kind /\ response.at = tick /\ tick' = tick)
            => response'.body = response.body]_vars
C9_Witness ==
    /\ response.kind = "status"
    /\ response.at = tick
    /\ response.body = status_view
    /\ response.body.trades_count = 1

IsPrefix(s, t) ==
    /\ Len(s) <= Len(t)
    /\ \A i \in 1..Len(s) : s[i] = t[i]

(* C10: trade_history is append-only in close order: each step leaves the   *)
(* earlier history a prefix of the later one, and an appended record        *)
(* carries the entry price, direction and stake of the position that was    *)
(* open and the closing tick's price.                                       *)
C10_AppendOnly ==
    [][/\ IsPrefix(trade_history, trade_history')
       /\ trade_history' # trade_history =>
            /\ Len(trade_history') = Len(trade_history) + 1
            /\ open_position # None
            /\ Last(trade_history').entry_price = open_position.entry_price
            /\ Last(trade_history').direction = open_position.direction
            /\ Last(trade_history').amount = open_position.amount
            /\ Last(trade_history').close_price = Last(price_series')]_vars
C10_Witness ==
    /\ Len(trade_history) = 2
    /\ trade_history[1] # trade_history[2]
    /\ trade_history[1].close_time < trade_history[2].close_time

Min(a, b) == IF a <= b THEN a ELSE b

(* C11: price_series is a sliding window of the most recent prices: at the  *)
(* end of every tick its length is min(tick, capacity); a tick appends the  *)
(* one price generated from the history before it, keeps the earlier points *)
(* in order and, when the window was full, evicts exactly the oldest one;   *)
(* nothing but a tick changes it.                                           *)
C11_SlidingWindow ==
    /\ [](Len(price_series) = Min(tick, MaxSeries))
    /\ [][/\ price_series' # price_series => tick' = tick + 1
          /\ tick' = tick + 1 =>
               \E p \in generate_next_price(price_series) :
                  price_series' =
                     IF Len(price_series) < MaxSeries
                     THEN price_series \o <<p>>
                     ELSE SubSeq(price_series, 2, Len(price_series)) \o <<p>>]_vars
\* the window has slid twice and no longer starts at a first price
C11_Witness ==
    /\ tick = MaxSeries + 2
    /\ Len(price_series) = MaxSeries
    /\ price_series[1] \notin FirstPrices
    /\ price_series[1] # price_series[MaxSeries]

(* C12: there is no margin enforcement: from FLAT an open signal opens a    *)
(* position and debits the stake whatever the balance is, also when it is   *)
(* below the stake or negative, and with a position open a close condition  *)
(* closes it whatever the balance is; balance < 0 is reached and trading    *)
(* goes on there.                                                           *)
C12_NoMarginEnforcement ==
    [][(tick' = tick + 1 /\ Actionable(price_series')) =>
        LET df == [close |-> price_series']
            r == rsi(df, Len(price_series'))
            long == r.num < 30 * r.den /\ CrossUp(price_series, price_series')
            short == r.num > 70 * r.den /\ CrossDown(price_series, price_series')
        IN /\ (open_position = None /\ (long \/ short)) =>
                /\ open_position' # None
                /\ open_position'.amount = Stake
                /\ balance' = balance - Stake
           /\ (open_position # None /\ open_position' = None) =>
                /\ Len(trade_history') = Len(trade_history) + 1
                /\ round6(balance') = round6(balance) + round6(Stake)
                                         + Last(trade_history').profit_amount
           /\ (open_position # None /\ balance < 0) =>
                (open_position' = None <=>
                    \/ pnl(open_position, Last(price_series')) >= 5 * PointsPerPip
                    \/ pnl(open_position, Last(price_series')) <= (-10) * PointsPerPip
                    \/ IF open_position.direction = "call"
                       THEN CrossDown(price_series, price_series')
                       ELSE CrossUp(price_series, price_series')) ]_vars
\* a second position opened on this tick from a negative balance, after a
\* losing trade
C12_Witness ==
    /\ opens = 2
    /\ closes = 1
    /\ open_position # None
    /\ open_position.entry_time = tick
    /\ trade_history[1].profit_amount < 0
    /\ balance < -Stake

\* a rolling value over w points has no value while fewer than w prices exist
SnapshotUndefined(prices) ==
    \/ Len(prices) < RSI_WINDOW
    \/ Len(prices) < MA_SHORT
    \/ Len(prices) < MA_LONG

(* C13: a tick whose snapshot lacks its latest rsi, maShort or maLong       *)
(* (fewer prices than the window of one of them) is non-actionable: signal  *)
(* evaluation is skipped and balance, open_position and trade_history are   *)
(* unchanged, whatever the position and the price are.                      *)
C13_NonActionableSkipped ==
    [][(tick' = tick + 1 /\ SnapshotUndefined(price_series')) =>
          /\ LedgerUnchanged
          /\ compute_indicators(price_series') # None =>
                Branch(compute_indicators(price_series'), open_position) = "return"]_vars
\* compute_indicators has returned a frame whose last ma_short is missing,
\* after falling prices that cross the means the frame has
C13_Witness ==
    /\ tick = FirstActionable
    /\ compute_indicators(price_series) # None
    /\ SnapshotUndefined(price_series)
    /\ isna(ma_short(compute_indicators(price_series), Len(price_series)))
    /\ price_series[1] > price_series[2]
    /\ price_series[2] > price_series[3]
    /\ open_position = None
    /\ balance = START_BALANCE * MoneyScale

(* C14: the open decision is deterministic with long priority: on every     *)
(* tick with an actionable snapshot the long-open condition (rsi < 30 and   *)
(* upward cross) and the short-open condition (rsi > 70 and downward cross) *)
(* never hold together; a tick from FLAT opens at most one position, and    *)
(* its direction is long exactly when the long condition holds and short    *)
(* exactly when the short condition holds.                                  *)
C14_LongPriorityExclusive ==
    [][(tick' = tick + 1 /\ Actionable(price_series')) =>
        LET df == [close |-> price_series']
            r == rsi(df, Len(price_series'))
            long == r.num < 30 * r.den /\ CrossUp(price_series, price_series')
            short == r.num > 70 * r.den /\ CrossDown(price_series, price_series')
        IN /\ ~(long /\ short)
           /\ ~(buy_signal(df) /\ sell_signal(df))
           /\ open_position = None =>
                /\ opens' \in {opens, opens + 1}
                /\ opens' = opens + 1 <=> open_position' # None
                /\ open_position' # None =>
                     open_position'.direction =
                        (IF long THEN "call" ELSE IF short THEN "put" ELSE "none")
                /\ (long \/ short) => open_position' # None]_vars
\* a first position opened short on this tick, later than the first
\* actionable tick
C14_Witness ==
    /\ opens = 1
    /\ closes = 0
    /\ open_position # None
    /\ open_position.direction = "put"
    /\ open_position.entry_time = tick
    /\ tick > FirstActionable

(* C15: each tick performs at most one ledger transition: a tick that opens *)
(* a position closes nothing, so a position is never closed on the tick it  *)
(* was opened on; a tick that closes a position ends FLAT and opens no new  *)
(* one, also when the opposite open signal holds on that tick; and          *)
(* trade_history grows by at most one record per tick.                      *)
C15_OneTransitionPerTick ==
    /\ [](\A i \in 1..Len(trade_history) :
              trade_history[i].close_time > trade_history[i].entry_time)
    /\ [][tick' = tick + 1 =>
            /\ Len(trade_history') \in {Len(trade_history), Len(trade_history) + 1}
            /\ (open_position = None /\ open_position' # None) =>
                  /\ trade_history' = trade_history
                  /\ open_position'.entry_time = tick'
            /\ Len(trade_history') = Len(trade_history) + 1 =>
                  /\ open_position # None
                  /\ open_position' = None
            /\ (open_position # None /\ open_position' # None) =>
                  /\ open_position' = open_position
                  /\ trade_history' = trade_history]_vars
\* a position closed on this tick while the opposite open signal holds:
\* the tick ends FLAT
C15_Witness ==
    /\ closes >= 1
    /\ open_position = None
    /\ Last(trade_history).close_time = tick
    /\ LET df == compute_indicators(price_series)
       IN IF Last(trade_history).direction = "call"
          THEN sell_signal(df) ELSE buy_signal(df)

(* C16: tick increases by exactly 1 per loop iteration and is never         *)
(* decreased or reset; each tick generates exactly one price and appends it *)
(* as the last point of price_series; that price is the entry price of a    *)
(* position opened on the tick and the close price of a trade closed on it; *)
(* and a status read at the end of tick t shows tick t and that price as    *)
(* latest_price.                                                            *)
C16_TickAndLatestPrice ==
    /\ []((response.kind = "status" /\ response.at = tick /\ tick > 0) =>
            /\ response.body.tick = tick
            /\ response.body.latest_price = Last(price_series))
    /\ [][/\ tick' # tick => tick' = tick + 1
          /\ price_series' # price_series => tick' = tick + 1
          /\ tick' = tick + 1 =>
               /\ Len(price_series') > 0
               /\ Last(price_series') \in generate_next_price(price_series)
               /\ \/ SubSeq(price_series', 1, Len(price_series') - 1) = price_series
                  \/ /\ price_series # <<>>
                     /\ SubSeq(price_series', 1, Len(price_series') - 1)
                           = Tail(price_series)
               /\ (open_position = None /\ open_position' # None) =>
                     open_position'.entry_price = Last(price_series')
               /\ Len(trade_history') > Len(trade_history) =>
                     Last(trade_history').close_price = Last(price_series')]_vars
\* status read at the end of a tick that opened a position: the price shown
\* is the entry price, and is not the oldest price kept
C16_Witness ==
    /\ response.kind = "status"
    /\ response.at = tick
    /\ response.body.tick = tick
    /\ tick > FirstActionable
    /\ open_position # None
    /\ open_position.entry_time = tick
    /\ response.body.latest_price = open_position.entry_price
    /\ response.body.latest_price # price_series[1]

=============================================================================
